---------------------------- MODULE Spec2Model ----------------------------
(***************************************************************************)
(* Model of py-oscilloscope: the capture callback (main.py audio_callback  *)
(* -> Oscilloscope.put_data) hands sample blocks through a queue to the    *)
(* render tick (Oscilloscope.update_plot), which pushes them into the      *)
(* fixed-size plotdata buffer and renders it; key presses                  *)
(* (Oscilloscope.onkeypress) change the view state.                        *)
(*                                                                         *)
(* Arrays.  A numpy array of 65536 rows is kept sparsely: a record         *)
(*   [rows, cols, nz]  (2-D)   or   [len, nz]  (1-D)                        *)
(* where nz maps exactly the indices (0-based, as in numpy) of the rows    *)
(* that are not all zero to their contents.  Two arrays are equal iff      *)
(* their records are equal.  A row of a 2-D array is a tuple of cols       *)
(* samples.                                                                *)
(*                                                                         *)
(* Floats.  window and yzoom are Python floats that are only halved,       *)
(* doubled and clamped; they are kept exactly as integer multiples of      *)
(* 1/Unit.  Samples are opaque amplitudes; they are integer multiples of   *)
(* Quantum so that the division by avg (1, 3 or 5) is exact.               *)
(***************************************************************************)
EXTENDS Integers, Sequences, FiniteSets, TLC

VARIABLES
    channels,     \* args.channels: the selected channel numbers (1-based), a tuple
    downsample,   \* self.downsample
    stream,       \* the capture stream: "new", "active" (started), "closed"
    q,            \* self.q: the queue of blocks, oldest first
    plotdata,     \* self.plotdata
    paused,       \* self.paused
    avg,          \* self.avg
    window,       \* self.window, in 1/Unit samples
    yzoom,        \* self.yzoom, in 1/Unit
    xlim,         \* the x-axis limits last set with ax.set_xlim, in 1/Unit
    ylim,         \* the y-axis limits last set with ax.set_ylim, in 1/Unit
    ydata,        \* per line (one per buffer column) the series last given to line.set_ydata
    status,       \* the text last given to status_text.set_text
    pc,           \* the render tick: "idle", "drain" (inside the while loop), "failed" (it raised)
    frame,        \* the frame number FuncAnimation passes to the next update_plot call
    enq,          \* history: the blocks put_data has enqueued, in order
    pushed,       \* history: the blocks update_plot has written into plotdata, in order
    nkeys,        \* history: number of key presses counted so far
    shown,        \* show(): "no" (not called), "running", "returned" or "raised"
    reported,     \* history: number of capture statuses printed to stderr
    atStart       \* history: inside a tick's loop, how many blocks had been enqueued
                  \* when the loop began (0 outside)

vars == <<channels, downsample, stream, q, plotdata, paused, avg, window, yzoom,
          xlim, ylim, ydata, status, pc, frame, enq, pushed, nkeys,
          shown, reported, atStart>>

---------------------------------------------------------------------------
(* Program constants *)

max_window == 65536
min_window == 16
max_yzoom == 8
min_yzoom == 1

(* Bounds of the exploration *)

MaxPuts == 2
MaxTicks == 2
MaxKeys == 2

(* Bounds of the exploration of the view state (ViewSpec) *)

ViewMaxPuts == 1
ViewMaxTicks == 1

Unit == 2^13
Quantum == 3 * 5

Max(a, b) == IF a >= b THEN a ELSE b
Min(a, b) == IF a <= b THEN a ELSE b

RECURSIVE SeqMax(_)
SeqMax(s) == IF Len(s) = 1 THEN s[1] ELSE Max(s[1], SeqMax(Tail(s)))

---------------------------------------------------------------------------
(* numpy arrays *)

ZeroRow(cols) == [c \in 1..cols |-> 0]

\* drop the all-zero rows from nz, so that equal arrays are equal records
Norm2(a) ==
    [a EXCEPT !.nz = [i \in {j \in DOMAIN a.nz : a.nz[j] # ZeroRow(a.cols)} |-> a.nz[i]]]

Norm1(a) ==
    [a EXCEPT !.nz = [i \in {j \in DOMAIN a.nz : a.nz[j] # 0} |-> a.nz[i]]]

\* np.zeros((rows, cols))
NpZeros(rows, cols) == [rows |-> rows, cols |-> cols, nz |-> [i \in {} |-> ZeroRow(cols)]]

\* len(a) of a 2-D array
NpLen(a) == a.rows

\* np.roll(a, shift, axis=0): row j moves to row (j + shift) mod rows
NpRoll(a, shift) ==
    [a EXCEPT !.nz = [i \in {(j + shift) % a.rows : j \in DOMAIN a.nz}
                        |-> a.nz[(i - shift) % a.rows]]]

\* np.roll(a, shift) of a 1-D array
NpRoll1(a, shift) ==
    [a EXCEPT !.nz = [i \in {(j + shift) % a.len : j \in DOMAIN a.nz}
                        |-> a.nz[(i - shift) % a.len]]]

\* the first row of the slice a[-shift:]: Python reads -0 as 0, and a start before
\* the first row as the first row
TailStart(a, shift) == IF shift = 0 THEN 0 ELSE Max(a.rows - shift, 0)

\* numpy's broadcasting rule for  a[-shift:, :] = data
CanBroadcast(a, shift, data) ==
    /\ data.rows = a.rows - TailStart(a, shift) \/ data.rows = 1
    /\ data.cols = a.cols \/ data.cols = 1

\* a row of data as written into a buffer of `cols` columns
BroadcastRow(row, cols) == [c \in 1..cols |-> IF Len(row) = 1 THEN row[1] ELSE row[c]]

\* a after  a[-shift:, :] = data, where the shapes broadcast
SetTail(a, shift, data) ==
    LET start == TailStart(a, shift)
        src(i) == IF data.rows = 1 THEN 0 ELSE i - start
        keep == {j \in DOMAIN a.nz : j < start}
        new == IF data.rows = 1
               THEN {i \in start..(a.rows - 1) : 0 \in DOMAIN data.nz}
               ELSE {start + j : j \in DOMAIN data.nz}
    IN  [a EXCEPT !.nz = [i \in keep \cup new |->
                            IF i < start THEN a.nz[i]
                            ELSE BroadcastRow(data.nz[src(i)], a.cols)]]

\* data[::step, mapping]: every step-th row, and of each the columns named by
\* mapping (0-based column indices, a tuple)
SliceStepCols(data, step, mapping) ==
    Norm2([rows |-> (data.rows + step - 1) \div step,
           cols |-> Len(mapping),
           nz |-> [i \in {j \div step : j \in {k \in DOMAIN data.nz : k % step = 0}}
                     |-> [c \in 1..Len(mapping) |-> data.nz[i * step][mapping[c] + 1]]]])

\* a[:, c] (c 0-based)
Column(a, c) ==
    Norm1([len |-> a.rows, nz |-> [i \in DOMAIN a.nz |-> a.nz[i][c + 1]]])

At1(a, i) == IF i \in DOMAIN a.nz THEN a.nz[i] ELSE 0

RECURSIVE SumRange(_, _, _)
SumRange(a, lo, hi) == IF lo > hi THEN 0 ELSE At1(a, lo) + SumRange(a, lo + 1, hi)

\* np.convolve(a, np.ones(k), "same") for odd k <= len(a): entry i is the sum of
\* a[i-h .. i+h], h = (k-1)/2, entries outside the array counting as 0
ConvolveOnesSame(a, k) ==
    LET h == (k - 1) \div 2
        near == {i \in UNION {(j - h)..(j + h) : j \in DOMAIN a.nz} : i >= 0 /\ i < a.len}
    IN  Norm1([a EXCEPT !.nz = [i \in near |-> SumRange(a, i - h, i + h)]])

\* a / k, elementwise
DivideBy(a, k) == [a EXCEPT !.nz = [i \in DOMAIN a.nz |-> a.nz[i] \div k]]

---------------------------------------------------------------------------
(* main.py: configuration and the capture callback *)

\* the channel selections a run may be started with (-c), each number >= 1
ChannelChoices == {<<1>>, <<1, 2>>, <<2>>, <<1, 3>>}

\* the initial windows a run may be started with (-w), in samples
WindowChoices == {1024}

\* the decimation factors a run may be started with (-n)
DownsampleChoices == {1, 2}

\* the frame counts the capture stream may deliver in one callback
FrameChoices == {2, max_window + 1, 2 * max_window - 1}

\* sd.InputStream(channels=max(args.channels), ...)
StreamChannels(chs) == SeqMax(chs)

\* self.channel_mapping = [c - 1 for c in channels]
ChannelMapping(chs) == [i \in 1..Len(chs) |-> chs[i] - 1]

\* the rows of a captured block that carry sound; all the others are silence (0)
Sounding(frames) == IF frames <= 4 THEN 0..(frames - 1)
                    ELSE {0, 1, frames - 2, frames - 1}

\* the sample of the n-th captured block at row r, column c (1-based): distinct
\* for distinct (n, r, c) among the sounding rows
Sample(n, frames, r, c) ==
    Quantum * (100 * n + 10 * (IF r < 4 THEN r + 1 ELSE 9 - (frames - 1 - r)) + c)

\* indata of the n-th callback: frames x stream.channels
InData(n, frames, cols) ==
    [rows |-> frames, cols |-> cols,
     nz |-> [r \in Sounding(frames) |-> [c \in 1..cols |-> Sample(n, frames, r, c)]]]

---------------------------------------------------------------------------
(* Oscilloscope *)

\* queue.Queue: put appends, get_nowait takes the oldest item
QueuePut(queue, item) == Append(queue, item)
\* variant for C1: a get that takes the newest item
QueueFirstFromEnd(queue) == queue[Len(queue)]
QueueFirst(queue) == Head(queue)
QueueRest(queue) == Tail(queue)

\* put_data: the block that is enqueued for indata
\* variant for C13: the block is enqueued without decimation
EnqueuedEveryRow(indata, step, chs) == SliceStepCols(indata, 1, ChannelMapping(chs))
Enqueued(indata, step, chs) == SliceStepCols(indata, step, ChannelMapping(chs))

\* set_window(window) with a window given: the clamped value
ClampWindow(w) == Max(Min(w, max_window * Unit), min_window * Unit)

\* set_window: ax.set_xlim([-self.window, 0])
XLim(w) == <<-w, 0>>

\* set_yzoom(yzoom) with a yzoom given: the clamped value
\* variant for C5: only the lower limit is applied
ClampYzoomFromBelow(y) == Max(y, min_yzoom * Unit)
ClampYzoom(y) == Max(Min(y, max_yzoom * Unit), min_yzoom * Unit)

\* set_yzoom: lim = 1 / self.yzoom; ax.set_ylim([-lim, lim])
\* variant for C12: the limit is the zoom factor, not its inverse
YLimOfFactor(y) == <<-y, y>>
YLim(y) == LET lim == (Unit * Unit) \div y IN <<-lim, lim>>

\* onkeypress, key 'a'
\* variant for C6: the else branch goes to 3
NextAvgBackTo3(a) == IF a = 1 THEN 3 ELSE IF a = 3 THEN 5 ELSE 3
NextAvg(a) == IF a = 1 THEN 3 ELSE IF a = 3 THEN 5 ELSE 1

\* the roll of update_plot: np.roll(self.plotdata, -shift, axis=0)
\* variant for C3: the first rows are cut off instead of rolled round
ShiftLeftDropping(buf, shift) ==
    LET cut == Min(shift, buf.rows)
    IN  [buf EXCEPT !.rows = buf.rows - cut,
                    !.nz = [i \in {j - cut : j \in {k \in DOMAIN buf.nz : k >= cut}}
                              |-> buf.nz[i + cut]]]
\* variant for C10: no roll at all
ShiftLeftNot(buf, shift) == buf
ShiftLeft(buf, shift) == NpRoll(buf, -shift)

\* update_plot, one drained block: [ok, buf] where buf is self.plotdata afterwards
\* and ok is FALSE when the assignment raised ("could not broadcast ...")
Push(buf, data) ==
    LET shift == NpLen(data)
        rolled == ShiftLeft(buf, shift)
    IN  IF CanBroadcast(rolled, shift, data)
        THEN [ok |-> TRUE, buf |-> SetTail(rolled, shift, data)]
        ELSE [ok |-> FALSE, buf |-> rolled]

\* update_plot: the series given to the line of column c (0-based)
\* variant for C9: only the last `window` rows are given to the line
SeriesOfWindow(buf, a, c) ==
    LET n == Min(window \div Unit, buf.rows)
        col == Column(buf, c)
    IN  [len |-> n,
         nz |-> [i \in {j - (buf.rows - n) : j \in {k \in DOMAIN col.nz : k >= buf.rows - n}}
                   |-> col.nz[i + (buf.rows - n)]]]
Series(buf, a, c) ==
    IF a > 1
    THEN NpRoll1(DivideBy(ConvolveOnesSame(Column(buf, c), a), a), a)
    ELSE Column(buf, c)

\* setup_plot: xvals = np.arange(-len(self.plotdata) + 1, 1, 1), the x value of
\* entry i of every line (i 0-based)
\* variant for C19: the x values start at -len
XValFromMinusLen(i, len) == 0 - len + i
XVal(i, len) == 0 - len + 1 + i

\* the entries of a line of len points that are drawn inside the x-axis limits
\* lim (in 1/Unit): the indices i with lim[1] <= XVal(i, len) <= lim[2], as
\* [first, last], the x values being consecutive whole numbers
Visible(len, lim) ==
    LET lo == 0 - ((0 - lim[1]) \div Unit)     \* the least whole x >= lim[1]
        hi == lim[2] \div Unit                 \* the greatest whole x <= lim[2]
    IN  [first |-> Max(0, lo - XVal(0, len)),
         last |-> Min(len - 1, hi - XVal(0, len))]

\* update_plot: 'frame %d, time %.3f, window %d, average %d'; the elapsed time is
\* left out, %d cuts the window to a whole number
StatusText(fr, w, a) == <<"frame", fr, "window", w \div Unit, "average", a>>

\* update_plot after the loop: what the lines and the status text show
\* variant for C7: the paused flag is not looked at
DisplayAlways(isPaused, buf, a, fr, w, oldY, oldStatus) ==
    [ydata |-> [l \in 1..buf.cols |-> Series(buf, a, l - 1)],
     status |-> StatusText(fr, w, a)]
Display(isPaused, buf, a, fr, w, oldY, oldStatus) ==
    IF ~isPaused
    THEN [ydata |-> [l \in 1..buf.cols |-> Series(buf, a, l - 1)],
          status |-> StatusText(fr, w, a)]
    ELSE [ydata |-> oldY, status |-> oldStatus]

\* the keys onkeypress knows, and one ('x') it does not
Keys == {"p", "alt+-", "alt++", "-", "+", "a", "x"}

---------------------------------------------------------------------------
(* The state machine *)

\* the state after Oscilloscope(stream, channels, window, downsample, interval),
\* for a configuration drawn from the given sets
Constructed(chooseChannels, chooseDownsample, chooseWindow) ==
    /\ channels \in chooseChannels
    /\ downsample \in chooseDownsample
    /\ stream = "new"
    /\ q = <<>>
    /\ plotdata = NpZeros(max_window, StreamChannels(channels))
    /\ paused = FALSE
    /\ avg = 1
    /\ window \in {w * Unit : w \in chooseWindow}
    /\ yzoom = 1 * Unit
    /\ xlim = XLim(window)
    /\ ylim = YLim(yzoom)
    /\ ydata = [l \in 1..StreamChannels(channels) |->
                  Column(NpZeros(max_window, StreamChannels(channels)), l - 1)]
    /\ status = <<"(status)">>
    /\ pc = "idle"
    /\ frame = 0
    /\ enq = <<>>
    /\ pushed = <<>>
    /\ nkeys = 0
    /\ shown = "no"
    /\ reported = 0
    /\ atStart = 0

Init == Constructed(ChannelChoices, DownsampleChoices, WindowChoices)

\* show(): `with self.stream:` starts the capture, plt.show() runs the event loop
Show ==
    /\ shown = "no"
    /\ stream = "new"
    /\ shown' = "running"
    /\ stream' = "active"
    /\ UNCHANGED <<channels, downsample, q, plotdata, paused, avg, window, yzoom,
                   xlim, ylim, ydata, status, pc, frame, enq, pushed, nkeys,
                   reported, atStart>>

\* the histories keep the first MaxPuts entries: all of them wherever no more
\* than MaxPuts blocks are captured
Remember(history, item) ==
    IF Len(history) < MaxPuts THEN Append(history, item) ELSE history

\* audio_callback(indata, frames, time, status) -> put_data, on the capture
\* thread; flagged: the status is not empty
AudioCallback(indata, flagged) ==
    /\ stream = "active"
    /\ reported' = IF flagged THEN reported + 1 ELSE reported
    /\ LET block == Enqueued(indata, downsample, channels)
       IN  /\ q' = QueuePut(q, block)
           /\ enq' = Remember(enq, block)
    /\ UNCHANGED <<channels, downsample, stream, plotdata, paused, avg, window, yzoom,
                   xlim, ylim, ydata, status, pc, frame, pushed, nkeys, shown, atStart>>

\* the callback for the next captured block, of the given number of frames, with
\* an empty status
PutData(frames) ==
    AudioCallback(InData(Len(enq) + 1, frames, StreamChannels(channels)), FALSE)

\* update_plot, one pass of the while loop that gets a block
TickGet ==
    /\ shown = "running"
    /\ pc \in {"idle", "drain"}
    /\ q # <<>>
    /\ LET data == QueueFirst(q)
           res == Push(plotdata, data)
       IN  /\ q' = QueueRest(q)
           /\ plotdata' = res.buf
           /\ IF res.ok
              THEN /\ pushed' = Remember(pushed, data)
                   /\ pc' = "drain"
                   /\ atStart' = IF pc = "idle" THEN Len(enq) ELSE atStart
              ELSE /\ pushed' = pushed
                   /\ pc' = "failed"
                   /\ atStart' = 0
    /\ UNCHANGED <<channels, downsample, stream, paused, avg, window, yzoom,
                   xlim, ylim, ydata, status, frame, enq, nkeys, shown, reported>>

\* update_plot, the pass that finds the queue empty, and the rest of the call
TickEmpty ==
    /\ shown = "running"
    /\ pc \in {"idle", "drain"}
    /\ q = <<>>
    /\ LET d == Display(paused, plotdata, avg, frame, window, ydata, status)
       IN  ydata' = d.ydata /\ status' = d.status
    /\ pc' = "idle"
    /\ frame' = frame + 1
    /\ atStart' = 0
    /\ UNCHANGED <<channels, downsample, stream, q, plotdata, paused, avg, window,
                   yzoom, xlim, ylim, enq, pushed, nkeys, shown, reported>>

\* a coordinate field of a key event: None, or a number (in whole units here)
None == <<"none">>
Num(n) == <<"num", n>>

\* the key events tried: one with the pointer outside the figure (every
\* coordinate None), one with the pointer at pixel row 0 inside the figure and
\* outside the axes' data range in y
PointerOutside == [x |-> None, y |-> None, xdata |-> None, ydata |-> None]
Events ==
    { PointerOutside,
      [x |-> Num(120), y |-> Num(0), xdata |-> Num(-300), ydata |-> None] }

\* onkeypress: `event.x if event.x else 0`
\* variant for C15: the field is printed as it is
CoordAsIs(v) == v
Coord(v) == IF v = None \/ v = Num(0) THEN Num(0) ELSE v

\* '%d' % v and '%f' % v: a number is formatted, None raises TypeError
Formats(v) == v[1] = "num"

\* onkeypress: the print of the event does not raise
Printed(event) ==
    \A f \in {"x", "y", "xdata", "ydata"} : Formats(Coord(event[f]))

\* the outcomes of the print over the events tried (TRUE: it does not raise)
PrintedOutcomes == {Printed(event) : event \in Events}

\* onkeypress for a key, on the UI thread (never inside a tick), the print having
\* raised or not: when it raises, the rest of the handler is not run
OnKey(key, printed) ==
    /\ shown = "running"
    /\ pc # "drain"
    /\ IF printed
       THEN /\ paused' = IF key = "p" THEN ~paused ELSE paused
            /\ yzoom' = IF key = "alt+-" THEN ClampYzoom(yzoom \div 2)
                        ELSE IF key = "alt++" THEN ClampYzoom(yzoom * 2)
                        ELSE yzoom
            /\ ylim' = IF key \in {"alt+-", "alt++"} THEN YLim(yzoom') ELSE ylim
            /\ window' = IF key = "-" THEN ClampWindow(window * 2)
                         ELSE IF key = "+" THEN ClampWindow(window \div 2)
                         ELSE window
            /\ xlim' = IF key \in {"-", "+"} THEN XLim(window') ELSE xlim
            /\ avg' = IF key = "a" THEN NextAvg(avg) ELSE avg
       ELSE UNCHANGED <<paused, yzoom, ylim, window, xlim, avg>>
    /\ UNCHANGED <<channels, downsample, stream, q, plotdata, ydata, status, pc,
                   frame, enq, pushed, shown, reported, atStart>>

\* onkeypress(event)
KeyPress(key, event) == OnKey(key, Printed(event))

\* no more than n ticks are started
StartsBefore(n) == pc = "idle" => frame < n

\* a key press that is counted, and one that is not
Counted(keypress) == keypress /\ nkeys' = nkeys + 1
Uncounted(keypress) == keypress /\ nkeys' = nkeys

\* show(): the stream once the with block is left, plt.show() having returned
\* or raised (outcome)
\* variant for C14: the stream is stopped by a statement after plt.show()
StreamAfterPlainCall(outcome) == IF outcome = "raised" THEN "active" ELSE "closed"
StreamAfterWith(outcome) == "closed"

\* the display is closed: plt.show() returns and the with block is left
Close ==
    /\ shown = "running"
    /\ pc # "drain"
    /\ shown' = "returned"
    /\ stream' = StreamAfterWith("returned")
    /\ UNCHANGED <<channels, downsample, q, plotdata, paused, avg, window, yzoom,
                   xlim, ylim, ydata, status, pc, frame, enq, pushed, nkeys,
                   reported, atStart>>

\* the exception of a failed tick leaves plt.show(), and the with block with it
Abort ==
    /\ shown = "running"
    /\ pc = "failed"
    /\ shown' = "raised"
    /\ stream' = StreamAfterWith("raised")
    /\ UNCHANGED <<channels, downsample, q, plotdata, paused, avg, window, yzoom,
                   xlim, ylim, ydata, status, pc, frame, enq, pushed, nkeys,
                   reported, atStart>>

Next ==
    \/ Show
    \/ \E frames \in FrameChoices : Len(enq) < MaxPuts /\ PutData(frames)
    \/ StartsBefore(MaxTicks) /\ TickGet
    \/ StartsBefore(MaxTicks) /\ TickEmpty
    \/ \E key \in Keys, event \in Events :
           nkeys < MaxKeys /\ Counted(KeyPress(key, event))
    \/ Close
    \/ Abort

Spec == Init /\ [][Next]_vars

---------------------------------------------------------------------------
(* The same program explored along the view state: every initial window of *)
(* ViewWindowChoices, key presses without a bound, one captured block; the *)
(* display stays open.                                                     *)

\* initial windows (-w), in samples: below min_window, not a power of two, the
\* default, above max_window
ViewWindowChoices == {5, 1000, 1024, 100000}

ViewInit == Constructed({<<1>>}, {1}, ViewWindowChoices)

ViewNext ==
    \/ Show
    \/ \E frames \in {2} : Len(enq) < ViewMaxPuts /\ PutData(frames)
    \/ StartsBefore(ViewMaxTicks) /\ TickGet
    \/ StartsBefore(ViewMaxTicks) /\ TickEmpty
    \/ \E key \in Keys : Uncounted(KeyPress(key, PointerOutside))

ViewSpec == ViewInit /\ [][ViewNext]_vars

---------------------------------------------------------------------------
(* The capture-to-buffer pipeline alone: blocks are put and ticks push     *)
(* them, with and without status flags; no key is pressed and the display  *)
(* stays open.                                                             *)

PushNext ==
    \/ Show
    \/ \E frames \in FrameChoices, flagged \in BOOLEAN :
           /\ Len(enq) < MaxPuts
           /\ AudioCallback(InData(Len(enq) + 1, frames, StreamChannels(channels)),
                            flagged)
    \/ StartsBefore(MaxTicks) /\ TickGet
    \/ StartsBefore(MaxTicks) /\ TickEmpty

PushSpec == Init /\ [][PushNext]_vars

---------------------------------------------------------------------------
(* The two threads running without end: the capture thread delivers blocks *)
(* of silence for as long as the stream is active (the queue is unbounded; *)
(* the model stops the producer at MaxQueue waiting blocks), the UI thread *)
(* runs ticks. Both threads keep being scheduled: weak fairness on the     *)
(* callback and on the step of the tick.                                   *)

MaxQueue == 2

Capture ==
    \E frames \in FrameChoices :
        /\ Len(q) < MaxQueue
        /\ AudioCallback(NpZeros(frames, StreamChannels(channels)), FALSE)

Tick == StartsBefore(MaxTicks) /\ (TickGet \/ TickEmpty)

LiveNext ==
    \/ Show
    \/ Capture
    \/ Tick

LiveSpec == Init /\ [][LiveNext]_vars /\ WF_vars(Capture) /\ WF_vars(Tick)

---------------------------------------------------------------------------
(* Properties *)

IsPrefix(s, t) == Len(s) <= Len(t) /\ SubSeq(t, 1, Len(s)) = s

RECURSIVE TotalRows(_)
TotalRows(blocks) == IF blocks = <<>> THEN 0 ELSE Head(blocks).rows + TotalRows(Tail(blocks))

\* block a followed by block b
Concat(a, b) ==
    [rows |-> a.rows + b.rows, cols |-> a.cols,
     nz |-> [i \in DOMAIN a.nz \cup {a.rows + j : j \in DOMAIN b.nz} |->
               IF i < a.rows THEN a.nz[i] ELSE b.nz[i - a.rows]]]

\* the blocks of a non-empty sequence, one after the other
RECURSIVE ConcatAll(_)
ConcatAll(blocks) ==
    IF Len(blocks) = 1 THEN Head(blocks)
    ELSE Concat(Head(blocks), ConcatAll(Tail(blocks)))

\* the last n rows of a buffer, as an array of n rows
LastRows(buf, n) ==
    [rows |-> n, cols |-> buf.cols,
     nz |-> [i \in {j - (buf.rows - n) : j \in {k \in DOMAIN buf.nz : k >= buf.rows - n}}
               |-> buf.nz[i + (buf.rows - n)]]]

\* a tick has just ended: the step that found the queue empty and left update_plot
TickEnds == frame' = frame + 1

\* C1: the blocks pushed into plotdata are a prefix of the blocks enqueued, in the
\* same order (every enqueued block is distinct, so none is pushed twice, skipped
\* or reordered); while no tick has raised, what is enqueued and not pushed is
\* exactly the queue; and at the end of every tick every block enqueued so far
\* has been pushed.
C1_DrainKeepsOrder ==
    /\ [](/\ IsPrefix(pushed, enq)
          /\ \A i, j \in 1..Len(enq) : i # j => enq[i] # enq[j]
          /\ pc # "failed" => enq = pushed \o q)
    /\ [][TickEnds => pushed' = enq']_vars

\* two blocks were enqueued, a tick has ended and both are pushed
C1_Witness == pc = "idle" /\ frame > 0 /\ Len(pushed) = 2 /\ pushed = enq

\* C2: once a tick has drained every enqueued block, of T <= max_window rows in
\* all, the last T rows of plotdata are the blocks one after the other in
\* enqueue order.
C2_TailIsConcatenation ==
    (/\ pc = "idle"
     /\ enq # <<>>
     /\ pushed = enq
     /\ TotalRows(enq) <= max_window)
    => LastRows(plotdata, TotalRows(enq)) = ConcatAll(enq)

\* C3: plotdata has exactly max_window rows, and every row index is below
\* max_window, in every reachable state.
C3_BufferLength ==
    /\ plotdata.rows = max_window
    /\ DOMAIN plotdata.nz \subseteq 0..(max_window - 1)

\* ticks have pushed two blocks, one of them of max_window rows
C3_Witness ==
    /\ Len(pushed) = 2
    /\ \E i \in 1..2 : pushed[i].rows = max_window
    /\ \E i \in 1..2 : pushed[i].rows < 4

\* a key press with one of the given keys
Pressed(keys) == \E key \in keys, printed \in PrintedOutcomes : OnKey(key, printed)

\* C4: after every press of '+', '-', 'alt++' or 'alt+-', from any configured
\* initial window, min_window <= window <= max_window.
C4_WindowClampedAfterPress ==
    [][Pressed({"+", "-", "alt++", "alt+-"})
         => (min_window * Unit <= window' /\ window' <= max_window * Unit)]_vars

\* C5: min_yzoom <= yzoom <= max_yzoom in every reachable state; 'alt++' sets
\* yzoom to min(max_yzoom, 2 * yzoom) and 'alt+-' to max(min_yzoom, yzoom / 2).
C5_YzoomClamped ==
    /\ [](min_yzoom * Unit <= yzoom /\ yzoom <= max_yzoom * Unit)
    /\ [][Pressed({"alt++"}) => yzoom' = Min(max_yzoom * Unit, 2 * yzoom)]_vars
    /\ [][Pressed({"alt+-"}) => 2 * yzoom' = Max(2 * min_yzoom * Unit, yzoom)]_vars

\* yzoom is at its maximum after key presses and a tick
C5_Witness == yzoom = max_yzoom * Unit /\ frame > 0

\* the values avg may be thought to start from
AvgStarts == 0..8

\* C6: 'a' maps avg 1 to 3, 3 to 5 and 5 to 1; from any starting value one press
\* leads into {1, 3, 5}; avg is in {1, 3, 5} in every reachable state; and no
\* step but a press of 'a' changes avg.
C6_AvgCycle ==
    /\ [](avg \in {1, 3, 5} /\ \A a \in AvgStarts : NextAvg(a) \in {1, 3, 5})
    /\ [][Pressed({"a"}) => ( \/ avg = 1 /\ avg' = 3
                              \/ avg = 3 /\ avg' = 5
                              \/ avg = 5 /\ avg' = 1 )]_vars
    /\ [][~Pressed({"a"}) => avg' = avg]_vars

\* avg is 5 (two presses of 'a') and a tick has rendered with it
C6_Witness == avg = 5 /\ Len(status) = 6 /\ status[6] = 5

\* C7: while paused no step changes the series or the status text last
\* rendered; a tick that runs while paused still ends only with the queue empty
\* and every enqueued block pushed, each drained block being pushed as it is
\* taken; and every tick that ends while not paused renders the buffer as it
\* then is, with every enqueued block pushed.
C7_PauseFreezesDisplay ==
    /\ [][paused => (ydata' = ydata /\ status' = status)]_vars
    /\ [][(paused /\ TickEnds) => (q = <<>> /\ pushed' = enq')]_vars
    /\ [][(paused /\ Len(q') < Len(q) /\ pc' # "failed")
            => (/\ pushed' = Append(pushed, Head(q))
                /\ plotdata' = Push(plotdata, Head(q)).buf)]_vars
    /\ [][(~paused /\ TickEnds)
            => (/\ pushed' = enq'
                /\ ydata' = [l \in 1..plotdata'.cols |-> Series(plotdata', avg, l - 1)])]_vars

\* paused, a tick has ended with a block pushed, and nothing was ever rendered
C7_Witness ==
    /\ paused
    /\ pc = "idle"
    /\ frame > 0
    /\ pushed # <<>>
    /\ pushed = enq
    /\ status = <<"(status)">>

\* C8: when the push of a block of more than max_window rows raises, plotdata
\* holds the rows it held before, in the same order.
C8_OversizeKeepsBuffer ==
    [][(pc' = "failed" /\ Len(q) > 0 /\ Head(q).rows > max_window)
         => plotdata' = plotdata]_vars

\* C9 as claimed: each series given to the renderer on a non-paused tick has as
\* many entries as the window.
C9_SeriesLengthIsWindow ==
    [][(~paused /\ TickEnds)
         => \A l \in DOMAIN ydata' : ydata'[l].len * Unit = window]_vars

\* C9 as amended: on every non-paused tick there is one series per buffer
\* column and each has max_window entries (the whole buffer), whatever the
\* window is.
C9_SeriesLengthIsBuffer ==
    [][(~paused /\ TickEnds)
         => (/\ DOMAIN ydata' = 1..plotdata.cols
             /\ \A l \in DOMAIN ydata' : ydata'[l].len = max_window)]_vars

\* a tick has rendered while the window was min_window, reached by key presses
C9_Witness == Len(status) = 6 /\ status[4] = min_window /\ window = min_window * Unit

\* blocks as put_data enqueues them in this run
TestBlocks ==
    {Enqueued(InData(n, f, StreamChannels(channels)), downsample, channels) :
        n \in {8, 9}, f \in FrameChoices}

\* plotdata after two drained blocks a and b, starting from buf (a push that
\* raises ends the tick)
PushBoth(buf, a, b) ==
    LET first == Push(buf, a)
    IN  IF first.ok THEN Push(first.buf, b).buf ELSE first.buf

\* C10: from every reachable buffer, pushing a and then b leaves the same
\* buffer as pushing the one block a followed by b, when their rows sum to at
\* most max_window.
C10_PushConcatenation ==
    \A a, b \in TestBlocks :
        a.rows + b.rows <= max_window
            => PushBoth(plotdata, a, b) = Push(plotdata, Concat(a, b)).buf

\* the buffer holds samples, and two blocks that fit are pushed onto it
C10_Witness ==
    /\ plotdata.nz # <<>>
    /\ \E a, b \in TestBlocks :
          /\ a.rows + b.rows <= max_window
          /\ Push(plotdata, a).ok
          /\ Push(Push(plotdata, a).buf, b).ok
          /\ PushBoth(plotdata, a, b) # plotdata

\* the window the scenario of C11 names after n presses of '+' from 1024, and
\* after n presses of '-' from 16
HalvedFrom1024(n) == (IF n >= 6 THEN min_window ELSE 1024 \div (2 ^ n)) * Unit
DoubledFrom16(n) == (IF n >= 12 THEN max_window ELSE min_window * (2 ^ n)) * Unit

\* C11: a press of '+' sets window to max(16, window / 2) and a press of '-'
\* sets it to min(65536, window * 2), whatever the window was; from 1024 the
\* presses of '+' pass 512, 256, 128, 64, 32 and hold at 16 for twenty presses,
\* and from 16 thirty presses of '-' double the window up to 65536 and hold
\* (each press computed as onkeypress computes it from the value before).
C11_HalveAndDouble ==
    /\ [][Pressed({"+"}) => 2 * window' = Max(2 * min_window * Unit, window)]_vars
    /\ [][Pressed({"-"}) => window' = Min(max_window * Unit, 2 * window)]_vars
    /\ [](\A n \in 0..19 :
            ClampWindow(HalvedFrom1024(n) \div 2) = HalvedFrom1024(n + 1))
    /\ [](\A n \in 0..29 :
            ClampWindow(DoubledFrom16(n) * 2) = DoubledFrom16(n + 1))

\* C12: in every reachable state (directly after construction, while paused,
\* after every key press) the x-axis limits are [-window, 0] and the y-axis
\* limits are [-1/yzoom, 1/yzoom] for the current window and yzoom.
C12_LimitsFollowState ==
    /\ xlim = <<0 - window, 0>>
    /\ ylim[1] = 0 - ylim[2]
    /\ ylim[2] * yzoom = Unit * Unit

\* paused, with the window and the y-zoom both changed by key presses
C12_Witness ==
    /\ paused
    /\ window = 2048 * Unit
    /\ yzoom = 4 * Unit
    /\ frame > 0

\* a[r, c] of a 2-D array (r 0-based, c 1-based)
At2(a, r, c) == IF r \in DOMAIN a.nz THEN a.nz[r][c] ELSE 0

\* block is rows 0, d, 2d, ... of indata, restricted to the columns chs[k] - 1
\* in the order of chs: ceil(F / d) rows, and entry for entry the same (the rows
\* compared are all those that are not silence in block or in indata)
IsDecimation(block, indata, d, chs) ==
    /\ block.rows * d >= indata.rows
    /\ (block.rows - 1) * d < indata.rows
    /\ block.cols = Len(chs)
    /\ DOMAIN block.nz \subseteq 0..(block.rows - 1)
    /\ \A i \in DOMAIN block.nz \cup {j \div d : j \in {k \in DOMAIN indata.nz : k % d = 0}} :
         \A k \in 1..Len(chs) : At2(block, i, k) = At2(indata, i * d, chs[k])

\* C13: every call of the capture callback with a block of F >= 1 frames
\* enqueues exactly one block, made of rows 0, d, 2d, ... of the input (ceil(F/d)
\* rows) and of the columns of channel_mapping in the configured order, whether
\* or not the status is empty; a non-empty status is printed and the block is
\* enqueued all the same.
C13_CallbackEnqueuesDecimated ==
    [][\A frames \in FrameChoices, flagged \in BOOLEAN :
         LET indata == InData(Len(enq) + 1, frames, StreamChannels(channels))
         IN  AudioCallback(indata, flagged) =>
               /\ Len(q') = Len(q) + 1
               /\ SubSeq(q', 1, Len(q)) = q
               /\ IsDecimation(q'[Len(q')], indata, downsample, channels)
               /\ reported' = reported + (IF flagged THEN 1 ELSE 0)]_vars

\* a block of 65537 frames captured with channels 1 and 3 and downsample 2 was
\* enqueued (32769 rows), and a status has been printed
C13_Witness ==
    /\ reported > 0
    /\ downsample = 2
    /\ channels = <<1, 3>>
    /\ \E i \in 1..Len(enq) : enq[i].rows = 32769 /\ enq[i].nz # <<>>

\* a step of a render tick (it takes a block, fails on one, or ends the tick),
\* and a key press that is counted
TickStep == Len(q') < Len(q) \/ pc' # pc \/ frame' # frame
AnyKeyPress == nkeys' # nkeys

\* C14: the capture stream is opened before the first tick or key press is
\* processed and is closed when the display is closed, on every path: every
\* tick step and every key press happens with the stream active, none with the
\* stream closed, and once show() has returned or raised the stream is closed.
C14_StreamScopedToShow ==
    /\ [](stream = "new" => frame = 0 /\ nkeys = 0 /\ pushed = <<>> /\ pc = "idle")
    /\ [](shown \in {"returned", "raised"} => stream = "closed")
    /\ [](shown = "running" => stream = "active")
    /\ [][(TickStep \/ AnyKeyPress) => stream = "active" /\ stream' = "active"]_vars

\* show() was left by the exception of a tick that failed
C14_Witness == shown = "raised" /\ pc = "failed" /\ frame > 0

\* C15: a key press whose key is none of 'p', '+', '-', 'alt++', 'alt+-', 'a'
\* leaves paused, window, yzoom, avg and the axis limits unchanged; no key
\* press of any kind changes the ring buffer or the queue; and a key event is
\* handled without failure whether its coordinates are present or absent: the
\* press of 'p' toggles paused and the press of 'a' moves avg for every event.
C15_KeysLeaveDataAlone ==
    [][\A key \in Keys, printed \in PrintedOutcomes :
         OnKey(key, printed) =>
           /\ plotdata' = plotdata
           /\ q' = q
           /\ key \notin {"p", "+", "-", "alt++", "alt+-", "a"}
                => UNCHANGED <<paused, window, yzoom, avg, xlim, ylim>>
           /\ key = "p" => paused' = ~paused
           /\ key = "a" => avg' # avg]_vars

\* keys were pressed, and paused toggled, with a block in the queue and another
\* in the ring buffer
C15_Witness ==
    /\ nkeys = MaxKeys
    /\ paused
    /\ q # <<>>
    /\ plotdata.nz # <<>>

EnqueuedAtStart == IF pc = "idle" THEN Len(enq) ELSE atStart

\* C17: the drain of a tick is atomic with respect to the producer: when a tick
\* ends it has removed exactly the blocks that were in the queue when its drain
\* began, and a block enqueued while the drain was in progress is still in the
\* queue, for a later tick.
C17_DrainIsAtomic ==
    [][TickEnds => /\ Len(pushed') = EnqueuedAtStart
                   /\ Len(q') = Len(enq') - EnqueuedAtStart]_vars

\* C18: every started tick completes, and it never waits for the producer: in
\* the loop of a tick a step of the tick is always possible (with an empty
\* queue the tick ends without any producer step), and while the producer
\* keeps enqueueing blocks the loop of the tick still comes to its end.
C18_TickCompletes ==
    /\ [](pc = "drain" => ENABLED (TickGet \/ TickEmpty))
    /\ [](pc = "drain" /\ q = <<>> => ENABLED TickEmpty)
    /\ (pc = "drain") ~> (pc # "drain")

\* a[first .. last] of a 1-D array (0-based, both ends included)
Slice1(a, first, last) ==
    [len |-> last - first + 1,
     nz |-> [i \in {j - first : j \in {k \in DOMAIN a.nz : k >= first /\ k <= last}}
               |-> a.nz[i + first]]]

\* the samples of line l (1-based) drawn inside the x-axis limits, oldest first
Displayed(series, lim) ==
    LET v == Visible(series.len, lim) IN Slice1(series, v.first, v.last)

\* the last n rows of column c (0-based) of the ring buffer
LastOfColumn(buf, c, n) == Slice1(Column(buf, c), buf.rows - n, buf.rows - 1)

\* a tick that renders without averaging has just ended
RawTickEnds == TickEnds /\ ~paused /\ avg = 1

\* C19: after a non-paused tick with avg = 1 the samples displayed inside the
\* x-axis range [-window, 0] are exactly the last `window` rows of the ring
\* buffer: the newest at x = 0, the oldest visible window - 1 samples before it,
\* and no more than `window` samples inside the range, for every window in
\* [16, 65536].
C19_DisplayedIsLastWindowRows ==
    [][(RawTickEnds /\ min_window * Unit <= window /\ window <= max_window * Unit) =>
         \A l \in DOMAIN ydata' :
           LET v == Visible(ydata'[l].len, xlim')
               n == v.last - v.first + 1
           IN  /\ n * Unit = window'
               /\ XVal(v.last, ydata'[l].len) = 0
               /\ XVal(v.first, ydata'[l].len) = 0 - (n - 1)
               /\ Displayed(ydata'[l], xlim') = LastOfColumn(plotdata', l - 1, n)]_vars

\* C19 as the code has it: after a non-paused tick with avg = 1 the samples
\* displayed inside the x-axis range [-window, 0] are the last
\* min(65536, floor(window) + 1) rows of the ring buffer, the newest at x = 0
\* and the oldest visible at x = -floor(window) (x = -65535 when the window is
\* 65535 or more).
C19_DisplayedIsWindowPlusOne ==
    [][RawTickEnds =>
         \A l \in DOMAIN ydata' :
           LET v == Visible(ydata'[l].len, xlim')
               n == v.last - v.first + 1
           IN  /\ n = Min(max_window, window' \div Unit + 1)
               /\ XVal(v.last, ydata'[l].len) = 0
               /\ XVal(v.first, ydata'[l].len) = 0 - (n - 1)
               /\ Displayed(ydata'[l], xlim') = LastOfColumn(plotdata', l - 1, n)]_vars

\* a tick rendered the captured block at window 16, without averaging
C19_Witness ==
    /\ frame > 0
    /\ ~paused
    /\ avg = 1
    /\ window = min_window * Unit
    /\ Len(status) = 6 /\ status[4] = min_window /\ status[6] = 1
    /\ ydata[1].nz # <<>>
    /\ Displayed(ydata[1], xlim).len = min_window + 1

\* C20: started with a whole-number window, window is a whole number of
\* samples in every reachable state, after any presses of '+' and '-'.
C20_WindowIsWhole == window % Unit = 0

===========================================================================
